---- MODULE Spec2Model ----
(***************************************************************************)
(* Door-access state synchronisation and PIN-based unlock of SmartNest.    *)
(*                                                                         *)
(* Session 1 is the client whose Home screen (src/app/(tabs)/index.tsx)    *)
(* is modelled in full: the door mirror, the unlock controller and the     *)
(* Home PIN cache.  Every session additionally has a Devices screen        *)
(* (src/app/(tabs)/devices.tsx) with its own PIN cache.  The remote store  *)
(* (door document, per-user PIN collections) is shared by all sessions.    *)
(*                                                                         *)
(* Strings the code inspects character by character (PIN codes, names)     *)
(* are sequences of one-character strings.                                 *)
(***************************************************************************)
EXTENDS Integers, Sequences, FiniteSets, TLC

\* ------------------------------------------------------------------ bounds
MaxInFlight   == 2      \* door-controller runs: calls awaiting an answer plus
                        \* snapshots not yet delivered
MaxPinOps     == 2      \* PIN collection operations in flight at once
MaxClientOps  == 1      \* PIN operations in flight in the single-client runs
MaxIds        == 2      \* PINs added in the single-client runs
MaxSessionIds == 4      \* PINs added in the multi-session runs
NumSessions   == 2      \* signed-in app instances of the multi-session runs

\* ------------------------------------------------------- program constants
PIN_QUOTA   == 10
PIN_MIN_LEN == 4
PIN_MAX_LEN == 8

\* ---------------------------------------------------------------- universe
NoUser   == "none"
Users    == {"u1", "u2"}
Sessions == 1 .. NumSessions
Screens  == {"home", "devices"}
Views    == Sessions \X Screens
Absent   == "undef"
Now      == "now"
NoAlert  == "none"
NoNotification == "none"

Digits == {"0", "1", "2", "3", "4", "5", "6", "7", "8", "9"}

VARIABLES
  user,                   \* useAuth().user of each session
  devicesDep,             \* user?.uid the Devices effect last ran with
  devicesMounted,         \* whether the Devices tab of each session was opened
  focused,                \* whether the Home screen of each session is in focus
  doorOpen, doorLoading,  \* Home screen door state
  isDoorFirstLoad, prevDoorOpen,
  showAccessChoiceModal, showDoorPinModal, doorPinInput, pinError,
  bioPending,             \* handleBiometricAuth calls awaiting authenticateAsync
  doorWrites,             \* toggleDoorState calls awaiting setDoc
  storeDoor,              \* doors/mainDoor in the remote store
  sub, snapQ,             \* door listeners attached by session 1, their undelivered snapshots
  storePins, nextId,      \* users/<uid>/pins in the remote store
  pins, loadingPins, savingPin, showPinModal,   \* PIN state of each screen
  pinOps,                 \* getDocs / addDoc / deleteDoc calls in flight
  deletePrompts,          \* "Delete PIN" confirmations awaiting an answer
  alert, notification     \* what the last step showed the user

doorVars  == <<doorOpen, doorLoading, isDoorFirstLoad, prevDoorOpen,
               showAccessChoiceModal, showDoorPinModal, doorPinInput, pinError,
               bioPending, doorWrites>>
storeDoorVars == <<storeDoor, sub, snapQ>>

\* a door listener of session 1 is attached (onSnapshot called, its
\* unsubscribe not yet)
Listening == sub > 0
pinVars   == <<storePins, nextId, pins, loadingPins, savingPin, showPinModal,
               pinOps, deletePrompts>>
vars == <<user, devicesDep, devicesMounted, focused, doorVars, storeDoorVars, pinVars, alert, notification>>

\* ------------------------------------------------------------ pure helpers
\* WhiteSpace and LineTerminator of ECMAScript, the characters that
\* String.prototype.trim strips.  A character is a one-character string;
\* those the string syntax cannot spell are written by their code point.
WhiteSpace ==
  {" ", "\t", "\n", "\r", "\f", "U+000B", "U+00A0", "U+1680", "U+2000",
   "U+2001", "U+2002", "U+2003", "U+2004", "U+2005", "U+2006", "U+2007",
   "U+2008", "U+2009", "U+200A", "U+2028", "U+2029", "U+202F", "U+205F",
   "U+3000", "U+FEFF"}

RECURSIVE TrimLeft(_)
TrimLeft(s) ==
  IF s # <<>> /\ Head(s) \in WhiteSpace THEN TrimLeft(Tail(s)) ELSE s

RECURSIVE TrimRight(_)
TrimRight(s) ==
  IF s # <<>> /\ s[Len(s)] \in WhiteSpace
    THEN TrimRight(SubSeq(s, 1, Len(s) - 1))
    ELSE s

\* String.prototype.trim
Trim(s) == TrimRight(TrimLeft(s))

\* /^\d+$/.test(s)
AllDigits(s) == s # <<>> /\ \A i \in 1 .. Len(s) : s[i] \in Digits

RemoveAt(q, i) == SubSeq(q, 1, i - 1) \o SubSeq(q, i + 1, Len(q))

RECURSIVE SetToSeq(_)
SetToSeq(S) ==
  IF S = {} THEN <<>>
  ELSE LET x == CHOOSE y \in S : \A z \in S : y.id <= z.id
       IN  <<x>> \o SetToSeq(S \ {x})

\* the text of a character sequence, as a template literal splices it
RECURSIVE StrOf(_)
StrOf(s) == IF s = <<>> THEN "" ELSE Head(s) \o StrOf(Tail(s))

\* `PIN "${pinName}" added successfully!`
AddedMessage(name) == "PIN \"" \o StrOf(name) \o "\" added successfully!"

\* pins.some(p => p.code === code)  /  pins.find(p => p.code === code)
MatchesPin(cache, code) == \E i \in DOMAIN cache : cache[i].code = code

\* ---------------------------------------------------------- door document
DoorFields == {"isOpen", "lastUpdated", "updatedBy", "from", "source", "type",
               "battery"}

NoDoorDoc == [exists |-> FALSE, data |-> [f \in DoorFields |-> Absent]]

DeviceDoorDoc(open) ==
  [exists |-> TRUE,
   data |-> [f \in DoorFields |->
               CASE f = "isOpen"      -> open
                 [] f = "lastUpdated" -> "earlier"
                 [] f = "updatedBy"   -> "device"
                 [] f = "from"        -> "device"
                 [] f = "source"      -> "device"
                 [] f = "type"        -> "door"
                 [] OTHER             -> "ok"]]

\* setDoc(ref, payload, { merge: true })
MergeWrite(d, payload) ==
  [exists |-> TRUE,
   data |-> [f \in DoorFields |->
               IF f \in DOMAIN payload THEN payload[f] ELSE d.data[f]]]

\* the object literal toggleDoorState passes to setDoc
DoorPayload(newState, uid) ==
  [from |-> "mobile-app", isOpen |-> newState, lastUpdated |-> Now,
   source |-> "mobile-app", updatedBy |-> uid, type |-> "door"]

\* what the listener reads of a delivered DocumentSnapshot
\* (initial marks the snapshot a listener is sent when it is attached)
SnapshotOf(d) ==
  [exists |-> d.exists, isOpen |-> d.data["isOpen"], initial |-> FALSE]
InitialSnapshotOf(d) == [SnapshotOf(d) EXCEPT !.initial = TRUE]

\* docSnap.data().isOpen || false
SnapIsOpen(snap) == IF snap.isOpen = TRUE THEN TRUE ELSE FALSE

NotificationText(isOpen) ==
  IF isOpen THEN "Front Door is now OPEN" ELSE "Front Door is now CLOSED"

\* --------------------------------------------------------- PIN collection
PinRec(id, code, name) == [id |-> id, code |-> code, name |-> name]

\* codes of the PINs the store already holds when the app starts
DigitAt == <<"0", "1", "2", "3", "4", "5", "6", "7", "8", "9">>
SeedCode(k) == <<"1", "0", DigitAt[(k \div 10) + 1], DigitAt[(k % 10) + 1]>>
SeedPins(n) == {PinRec(0 - k, SeedCode(k), <<"S">>) : k \in 1 .. n}

\* querySnapshot.forEach(push) in loadPinsFromFirestore
LoadedPins(S) == SetToSeq(S)

\* ------------------------------------------------------------ session
LoadOp(v, uid) ==
  [kind |-> "load", view |-> v, uid |-> uid, pins |-> <<>>, code |-> <<>>,
   name |-> <<>>, id |-> 0]

\* loadPinsFromFirestore up to its await, on each of the screens vs
StartLoads(vs, uid) ==
  /\ loadingPins' = [v \in Views |->
                       IF \E k \in DOMAIN vs : vs[k] = v THEN TRUE
                       ELSE loadingPins[v]]
  /\ pinOps' = pinOps \o [k \in DOMAIN vs |-> LoadOp(vs[k], uid)]

StartLoad(v, uid) == StartLoads(<<v>>, uid)

\* the screens of session s whose effect loads the PINs in the commit that
\* delivers a user: Home when it is in focus (useFocusEffect, deps [user])
\* and Devices when it is mounted (useEffect, deps [user?.uid])
LoadingScreens(s) ==
  (IF focused[s] THEN << <<s, "home">> >> ELSE <<>>)
    \o (IF devicesMounted[s] THEN << <<s, "devices">> >> ELSE <<>>)

\* onAuthStateChanged delivers a user: the door effect of Home (deps [user])
\* attaches a listener, and the effects of the mounted screens load the PINs
SignIn(s, u) ==
  /\ user[s] = NoUser
  /\ user' = [user EXCEPT ![s] = u]
  /\ Len(pinOps) + Len(LoadingScreens(s)) <= MaxPinOps
  /\ StartLoads(LoadingScreens(s), u)
  /\ devicesDep' = IF devicesMounted[s] THEN [devicesDep EXCEPT ![s] = u]
                   ELSE devicesDep
  /\ IF s = 1
       THEN /\ sub' = sub + 1
            /\ snapQ' = <<InitialSnapshotOf(storeDoor)>>
       ELSE UNCHANGED <<sub, snapQ>>
  /\ alert' = NoAlert
  /\ notification' = NoNotification
  /\ UNCHANGED <<devicesMounted, focused, doorVars, storeDoor, storePins, nextId, pins,
                 savingPin, showPinModal, deletePrompts>>

\* variant: the user becomes null and the listener is left attached
SignOutKeepsListening(s) ==
  /\ user[s] # NoUser
  /\ user' = [user EXCEPT ![s] = NoUser]
  /\ devicesDep' = IF devicesMounted[s] THEN [devicesDep EXCEPT ![s] = NoUser]
                   ELSE devicesDep
  /\ alert' = NoAlert
  /\ notification' = NoNotification
  /\ UNCHANGED <<devicesMounted, focused, doorVars, storeDoorVars, pinVars>>

\* the user becomes null: the door effect's cleanup detaches the listener
\* the effect's last run attached, and the
\* effect of a mounted Devices screen runs again and loads nothing
SignOut(s) ==
  /\ user[s] # NoUser
  /\ user' = [user EXCEPT ![s] = NoUser]
  /\ devicesDep' = IF devicesMounted[s] THEN [devicesDep EXCEPT ![s] = NoUser]
                   ELSE devicesDep
  /\ IF s = 1
       THEN /\ sub' = sub - 1
            /\ snapQ' = <<>>
       ELSE UNCHANGED <<sub, snapQ>>
  /\ alert' = NoAlert
  /\ notification' = NoNotification
  /\ UNCHANGED <<devicesMounted, focused, doorVars, storeDoor, pinVars>>

\* ------------------------------------------------------------ door mirror
\* calls awaiting an answer and snapshots awaiting delivery
InFlight == Len(snapQ) + Len(doorWrites) + Len(bioPending) + Len(pinOps)

\* variant: the notification names the state the door left
DoorSnapshotSwappedText ==
  /\ Listening
  /\ snapQ # <<>>
  /\ LET d == Head(snapQ)
         isOpen == SnapIsOpen(d)
     IN  IF d.exists
           THEN /\ notification' =
                     IF ~isDoorFirstLoad /\ isOpen # prevDoorOpen
                       THEN NotificationText(~isOpen)
                       ELSE NoNotification
                /\ doorOpen' = isOpen
                /\ prevDoorOpen' = isOpen
                /\ isDoorFirstLoad' = FALSE
           ELSE /\ notification' = NoNotification
                /\ UNCHANGED <<doorOpen, prevDoorOpen, isDoorFirstLoad>>
  /\ snapQ' = Tail(snapQ)
  /\ alert' = NoAlert
  /\ UNCHANGED <<user, devicesDep, devicesMounted, focused, doorLoading, showAccessChoiceModal, showDoorPinModal,
                 doorPinInput, pinError, bioPending, doorWrites, storeDoor,
                 sub, pinVars>>
\* variant: the mirror is set from the ref before the ref is updated
DoorSnapshotStaleRef ==
  /\ Listening
  /\ snapQ # <<>>
  /\ LET d == Head(snapQ)
         isOpen == SnapIsOpen(d)
     IN  IF d.exists
           THEN /\ notification' =
                     IF ~isDoorFirstLoad /\ isOpen # prevDoorOpen
                       THEN NotificationText(isOpen)
                       ELSE NoNotification
                /\ doorOpen' = prevDoorOpen
                /\ prevDoorOpen' = isOpen
                /\ isDoorFirstLoad' = FALSE
           ELSE /\ notification' = NoNotification
                /\ UNCHANGED <<doorOpen, prevDoorOpen, isDoorFirstLoad>>
  /\ snapQ' = Tail(snapQ)
  /\ alert' = NoAlert
  /\ UNCHANGED <<user, devicesDep, devicesMounted, focused, doorLoading, showAccessChoiceModal, showDoorPinModal,
                 doorPinInput, pinError, bioPending, doorWrites, storeDoor,
                 sub, pinVars>>
\* onSnapshot success callback
DoorSnapshot ==
  /\ Listening
  /\ snapQ # <<>>
  /\ LET d == Head(snapQ)
         isOpen == SnapIsOpen(d)
     IN  IF d.exists
           THEN /\ notification' =
                     IF ~isDoorFirstLoad /\ isOpen # prevDoorOpen
                       THEN NotificationText(isOpen)
                       ELSE NoNotification
                /\ doorOpen' = isOpen
                /\ prevDoorOpen' = isOpen
                /\ isDoorFirstLoad' = FALSE
           ELSE /\ notification' = NoNotification
                /\ UNCHANGED <<doorOpen, prevDoorOpen, isDoorFirstLoad>>
  /\ snapQ' = Tail(snapQ)
  /\ alert' = NoAlert
  /\ UNCHANGED <<user, devicesDep, devicesMounted, focused, doorLoading, showAccessChoiceModal, showDoorPinModal,
                 doorPinInput, pinError, bioPending, doorWrites, storeDoor,
                 sub, pinVars>>

\* onSnapshot error callback: console.error only
DoorSnapshotError ==
  /\ Listening
  /\ alert' = NoAlert
  /\ notification' = NoNotification
  /\ UNCHANGED <<user, devicesDep, devicesMounted, focused, doorVars, storeDoorVars, pinVars>>

\* another writer (the lock hardware) publishes the door's status document
ForeignDoorWrite(open) ==
  /\ InFlight < MaxInFlight
  /\ storeDoor' = MergeWrite(storeDoor,
                             [isOpen |-> open, updatedBy |-> "device",
                              lastUpdated |-> "earlier", from |-> "device",
                              source |-> "device", type |-> "door",
                              battery |-> "ok"])
  /\ snapQ' = IF Listening THEN Append(snapQ, SnapshotOf(storeDoor'))
            ELSE snapQ
  /\ alert' = NoAlert
  /\ notification' = NoNotification
  /\ UNCHANGED <<user, devicesDep, devicesMounted, focused, doorVars, sub, pinVars>>

\* -------------------------------------------------------- door controller
\* room for one more toggleDoorState call
CanIssue == InFlight < MaxInFlight

\* toggleDoorState up to its await: cDoorOpen and cUser are the values the
\* calling closure captured; via records which handler made the call
ToggleDoorState(cDoorOpen, cUser, via) ==
  IF cUser = NoUser
    THEN UNCHANGED <<doorLoading, doorWrites>>
    ELSE /\ doorLoading' = TRUE
         /\ doorWrites' =
              Append(doorWrites,
                     [payload |-> DoorPayload(~cDoorOpen, cUser),
                      via |-> via])

\* the finally block of toggleDoorState
ToggleFinally ==
  /\ doorLoading' = FALSE
  /\ showAccessChoiceModal' = FALSE
  /\ showDoorPinModal' = FALSE
  /\ doorPinInput' = <<>>
  /\ pinError' = ""

\* variant: the acknowledged value is shown at once
ToggleDoorStateAckSetsMirror(i) ==
  /\ i \in DOMAIN doorWrites
  /\ storeDoor' = MergeWrite(storeDoor, doorWrites[i].payload)
  /\ snapQ' = IF Listening THEN Append(snapQ, SnapshotOf(storeDoor'))
            ELSE snapQ
  /\ doorWrites' = RemoveAt(doorWrites, i)
  /\ ToggleFinally
  /\ doorOpen' = doorWrites[i].payload.isOpen
  /\ alert' = NoAlert
  /\ notification' = NoNotification
  /\ UNCHANGED <<user, devicesDep, devicesMounted, focused, isDoorFirstLoad, prevDoorOpen, bioPending,
                 sub, pinVars>>
\* setDoc resolved
ToggleDoorStateAck(i) ==
  /\ i \in DOMAIN doorWrites
  /\ storeDoor' = MergeWrite(storeDoor, doorWrites[i].payload)
  /\ snapQ' = IF Listening THEN Append(snapQ, SnapshotOf(storeDoor'))
            ELSE snapQ
  /\ doorWrites' = RemoveAt(doorWrites, i)
  /\ ToggleFinally
  /\ alert' = NoAlert
  /\ notification' = NoNotification
  /\ UNCHANGED <<user, devicesDep, devicesMounted, focused, doorOpen, isDoorFirstLoad, prevDoorOpen, bioPending,
                 sub, pinVars>>

\* variant: the clean-up runs on success only
ToggleDoorStateFailNoCleanup(i) ==
  /\ i \in DOMAIN doorWrites
  /\ doorWrites' = RemoveAt(doorWrites, i)
  /\ alert' = "Failed to control door. Please try again."
  /\ notification' = NoNotification
  /\ UNCHANGED <<user, devicesDep, devicesMounted, focused, doorOpen, doorLoading, isDoorFirstLoad,
                 prevDoorOpen, showAccessChoiceModal, showDoorPinModal,
                 doorPinInput, pinError, bioPending, storeDoorVars, pinVars>>

\* setDoc rejected
ToggleDoorStateFail(i) ==
  /\ i \in DOMAIN doorWrites
  /\ doorWrites' = RemoveAt(doorWrites, i)
  /\ ToggleFinally
  /\ alert' = "Failed to control door. Please try again."
  /\ notification' = NoNotification
  /\ UNCHANGED <<user, devicesDep, devicesMounted, focused, doorOpen, isDoorFirstLoad, prevDoorOpen, bioPending,
                 storeDoorVars, pinVars>>

\* The Home screen renders its controls only for a signed-in user, and a
\* visible Modal covers the controls below it.
HomeShown == user[1] # NoUser /\ focused[1]
NoModal   == ~showAccessChoiceModal /\ ~showDoorPinModal

\* variant: the door card toggles without asking for a method
HandleDoorToggleUngated ==
  /\ HomeShown
  /\ NoModal
  /\ ~doorLoading
  /\ CanIssue
  /\ ToggleDoorState(doorOpen, user[1], "toggle")
  /\ alert' = NoAlert
  /\ notification' = NoNotification
  /\ UNCHANGED <<user, devicesDep, devicesMounted, focused, doorOpen, isDoorFirstLoad, prevDoorOpen,
                 showAccessChoiceModal, showDoorPinModal, doorPinInput,
                 pinError, bioPending, storeDoorVars, pinVars>>

\* variant: the door card asks for a method in both directions
HandleDoorToggleAlwaysGated ==
  /\ HomeShown
  /\ NoModal
  /\ ~doorLoading
  /\ showAccessChoiceModal' = TRUE
  /\ alert' = NoAlert
  /\ notification' = NoNotification
  /\ UNCHANGED <<user, devicesDep, devicesMounted, focused, doorOpen, doorLoading, isDoorFirstLoad,
                 prevDoorOpen, showDoorPinModal, doorPinInput, pinError,
                 bioPending, doorWrites, storeDoorVars, pinVars>>

\* door card pressed (disabled while doorLoading)
HandleDoorToggle ==
  /\ HomeShown
  /\ NoModal
  /\ ~doorLoading
  /\ IF ~doorOpen
       THEN /\ showAccessChoiceModal' = TRUE
            /\ UNCHANGED <<doorLoading, doorWrites>>
       ELSE /\ CanIssue
            /\ ToggleDoorState(doorOpen, user[1], "toggle")
            /\ UNCHANGED showAccessChoiceModal
  /\ alert' = NoAlert
  /\ notification' = NoNotification
  /\ UNCHANGED <<user, devicesDep, devicesMounted, focused, doorOpen, isDoorFirstLoad, prevDoorOpen,
                 showDoorPinModal, doorPinInput, pinError, bioPending,
                 storeDoorVars, pinVars>>

\* variant: Cancel does what "Access Code" does
CancelAccessChoiceOpensPin ==
  /\ HomeShown
  /\ showAccessChoiceModal
  /\ showAccessChoiceModal' = FALSE
  /\ showDoorPinModal' = TRUE
  /\ alert' = NoAlert
  /\ notification' = NoNotification
  /\ UNCHANGED <<user, devicesDep, devicesMounted, focused, doorOpen, doorLoading, isDoorFirstLoad, prevDoorOpen,
                 doorPinInput, pinError, bioPending, doorWrites,
                 storeDoorVars, pinVars>>
\* Access Choice modal: Cancel, overlay press, back request
CancelAccessChoice ==
  /\ HomeShown
  /\ showAccessChoiceModal
  /\ showAccessChoiceModal' = FALSE
  /\ alert' = NoAlert
  /\ notification' = NoNotification
  /\ UNCHANGED <<user, devicesDep, devicesMounted, focused, doorOpen, doorLoading, isDoorFirstLoad, prevDoorOpen,
                 showDoorPinModal, doorPinInput, pinError, bioPending,
                 doorWrites, storeDoorVars, pinVars>>

\* Access Choice modal: "Access Code"
ChooseAccessCode ==
  /\ HomeShown
  /\ showAccessChoiceModal
  /\ showAccessChoiceModal' = FALSE
  /\ showDoorPinModal' = TRUE
  /\ alert' = NoAlert
  /\ notification' = NoNotification
  /\ UNCHANGED <<user, devicesDep, devicesMounted, focused, doorOpen, doorLoading, isDoorFirstLoad, prevDoorOpen,
                 doorPinInput, pinError, bioPending, doorWrites,
                 storeDoorVars, pinVars>>

\* Access Choice modal: "Biometrics".  handleBiometricAuth up to its first
\* await: hasHardwareAsync is pending.  What follows runs with the doorOpen
\* and the user of this render.
HandleBiometricAuth ==
  /\ HomeShown
  /\ showAccessChoiceModal
  /\ InFlight < MaxInFlight
  /\ bioPending' = Append(bioPending,
                          [stage |-> "hasHardware", hasHardware |-> FALSE,
                           doorOpen |-> doorOpen, user |-> user[1]])
  /\ alert' = NoAlert
  /\ notification' = NoNotification
  /\ UNCHANGED <<user, devicesDep, devicesMounted, focused, doorOpen, doorLoading, isDoorFirstLoad, prevDoorOpen,
                 showAccessChoiceModal, showDoorPinModal, doorPinInput,
                 pinError, doorWrites, storeDoorVars, pinVars>>

\* what hasHardwareAsync and isEnrolledAsync may answer
BiometricAnswers == {"yes", "no", "throws"}

\* variant: authenticateAsync is called whatever the two checks answer
BiometricCheckIgnoresAnswer(i, answer) ==
  /\ i \in DOMAIN bioPending
  /\ bioPending[i].stage \in {"hasHardware", "isEnrolled"}
  /\ LET b == bioPending[i]
     IN  IF answer = "throws"
           THEN /\ bioPending' = RemoveAt(bioPending, i)
                /\ alert' = NoAlert
           ELSE IF b.stage = "hasHardware"
             THEN /\ bioPending' =
                       [bioPending EXCEPT ![i].stage = "isEnrolled",
                                          ![i].hasHardware = (answer = "yes")]
                  /\ alert' = NoAlert
             ELSE /\ bioPending' =
                       [bioPending EXCEPT ![i].stage = "authenticate"]
                  /\ alert' = NoAlert
  /\ notification' = NoNotification
  /\ UNCHANGED <<user, devicesDep, devicesMounted, focused, doorOpen, doorLoading, isDoorFirstLoad, prevDoorOpen,
                 showAccessChoiceModal, showDoorPinModal, doorPinInput,
                 pinError, doorWrites, storeDoorVars, pinVars>>

\* hasHardwareAsync or isEnrolledAsync settles: the second check is made
\* whatever the first answered; with both "yes" authenticateAsync is called
\* and suspends, otherwise the "Biometrics Unavailable" alert is raised; a
\* throw is caught and logged
BiometricCheck(i, answer) ==
  /\ i \in DOMAIN bioPending
  /\ bioPending[i].stage \in {"hasHardware", "isEnrolled"}
  /\ LET b == bioPending[i]
     IN  IF answer = "throws"
           THEN /\ bioPending' = RemoveAt(bioPending, i)
                /\ alert' = NoAlert
           ELSE IF b.stage = "hasHardware"
             THEN /\ bioPending' =
                       [bioPending EXCEPT ![i].stage = "isEnrolled",
                                          ![i].hasHardware = (answer = "yes")]
                  /\ alert' = NoAlert
             ELSE IF b.hasHardware /\ answer = "yes"
               THEN /\ bioPending' =
                         [bioPending EXCEPT ![i].stage = "authenticate"]
                    /\ alert' = NoAlert
               ELSE /\ bioPending' = RemoveAt(bioPending, i)
                    /\ alert' = "Biometrics Unavailable"
  /\ notification' = NoNotification
  /\ UNCHANGED <<user, devicesDep, devicesMounted, focused, doorOpen, doorLoading, isDoorFirstLoad, prevDoorOpen,
                 showAccessChoiceModal, showDoorPinModal, doorPinInput,
                 pinError, doorWrites, storeDoorVars, pinVars>>

\* authenticateAsync settles
BiometricOutcomes == {"success", "failure", "cancelled", "throws"}

\* variant: toggleDoorState is called whatever authenticateAsync reports
BiometricResultIgnoresOutcome(i, outcome) ==
  /\ i \in DOMAIN bioPending
  /\ bioPending[i].stage = "authenticate"
  /\ bioPending' = RemoveAt(bioPending, i)
  /\ ToggleDoorState(bioPending[i].doorOpen, bioPending[i].user, "biometric")
  /\ alert' = NoAlert
  /\ notification' = NoNotification
  /\ UNCHANGED <<user, devicesDep, devicesMounted, focused, doorOpen, isDoorFirstLoad, prevDoorOpen,
                 showAccessChoiceModal, showDoorPinModal, doorPinInput,
                 pinError, storeDoorVars, pinVars>>

BiometricResult(i, outcome) ==
  /\ i \in DOMAIN bioPending
  /\ bioPending[i].stage = "authenticate"
  /\ bioPending' = RemoveAt(bioPending, i)
  /\ IF outcome = "success"
       THEN /\ ToggleDoorState(bioPending[i].doorOpen, bioPending[i].user,
                               "biometric")
       ELSE UNCHANGED <<doorLoading, doorWrites>>
  /\ alert' = NoAlert
  /\ notification' = NoNotification
  /\ UNCHANGED <<user, devicesDep, devicesMounted, focused, doorOpen, isDoorFirstLoad, prevDoorOpen,
                 showAccessChoiceModal, showDoorPinModal, doorPinInput,
                 pinError, storeDoorVars, pinVars>>

\* Door PIN modal: close icon, back request
DismissDoorPinModal ==
  /\ HomeShown
  /\ showDoorPinModal
  /\ showDoorPinModal' = FALSE
  /\ alert' = NoAlert
  /\ notification' = NoNotification
  /\ UNCHANGED <<user, devicesDep, devicesMounted, focused, doorOpen, doorLoading, isDoorFirstLoad, prevDoorOpen,
                 showAccessChoiceModal, doorPinInput, pinError, bioPending,
                 doorWrites, storeDoorVars, pinVars>>

\* Door PIN modal: onChangeText={setDoorPinInput}, maxLength 8
SetDoorPinInput(text) ==
  /\ HomeShown
  /\ showDoorPinModal
  /\ Len(text) <= PIN_MAX_LEN
  /\ text # doorPinInput
  /\ doorPinInput' = text
  /\ alert' = NoAlert
  /\ notification' = NoNotification
  /\ UNCHANGED <<user, devicesDep, devicesMounted, focused, doorOpen, doorLoading, isDoorFirstLoad, prevDoorOpen,
                 showAccessChoiceModal, showDoorPinModal, pinError, bioPending,
                 doorWrites, storeDoorVars, pinVars>>

\* Door PIN modal: "Unlock Door" (disabled while doorLoading) or the
\* keyboard's done key (onSubmitEditing, never disabled)
PinSubmitSources == {"button", "keyboard"}

\* variant: a mismatch leaves the entered code in the buffer
HandlePinAuthKeepsBuffer(src) ==
  /\ HomeShown
  /\ showDoorPinModal
  /\ src = "button" => ~doorLoading
  /\ IF Len(doorPinInput) < PIN_MIN_LEN
       THEN /\ pinError' = "PIN must be 4-8 digits."
            /\ UNCHANGED <<doorPinInput, doorLoading, doorWrites>>
       ELSE IF MatchesPin(pins[<<1, "home">>], doorPinInput)
         THEN /\ CanIssue
              /\ pinError' = ""
              /\ ToggleDoorState(doorOpen, user[1], "pin")
              /\ UNCHANGED doorPinInput
         ELSE /\ pinError' = "Invalid PIN code. Please try again."
              /\ UNCHANGED <<doorPinInput, doorLoading, doorWrites>>
  /\ alert' = NoAlert
  /\ notification' = NoNotification
  /\ UNCHANGED <<user, devicesDep, devicesMounted, focused, doorOpen, isDoorFirstLoad, prevDoorOpen,
                 showAccessChoiceModal, showDoorPinModal, bioPending,
                 storeDoorVars, pinVars>>

\* variant: the entered code is looked up whatever its length
HandlePinAuthNoLengthRule(src) ==
  /\ HomeShown
  /\ showDoorPinModal
  /\ src = "button" => ~doorLoading
  /\ IF MatchesPin(pins[<<1, "home">>], doorPinInput)
       THEN /\ CanIssue
            /\ pinError' = ""
            /\ ToggleDoorState(doorOpen, user[1], "pin")
            /\ UNCHANGED doorPinInput
       ELSE /\ pinError' = "Invalid PIN code. Please try again."
            /\ doorPinInput' = <<>>
            /\ UNCHANGED <<doorLoading, doorWrites>>
  /\ alert' = NoAlert
  /\ notification' = NoNotification
  /\ UNCHANGED <<user, devicesDep, devicesMounted, focused, doorOpen, isDoorFirstLoad, prevDoorOpen,
                 showAccessChoiceModal, showDoorPinModal, bioPending,
                 storeDoorVars, pinVars>>

HandlePinAuth(src) ==
  /\ HomeShown
  /\ showDoorPinModal
  /\ src = "button" => ~doorLoading
  /\ IF Len(doorPinInput) < PIN_MIN_LEN
       THEN /\ pinError' = "PIN must be 4-8 digits."
            /\ UNCHANGED <<doorPinInput, doorLoading, doorWrites>>
       ELSE IF MatchesPin(pins[<<1, "home">>], doorPinInput)
         THEN /\ CanIssue
              /\ pinError' = ""
              /\ ToggleDoorState(doorOpen, user[1], "pin")
              /\ UNCHANGED doorPinInput
         ELSE /\ pinError' = "Invalid PIN code. Please try again."
              /\ doorPinInput' = <<>>
              /\ UNCHANGED <<doorLoading, doorWrites>>
  /\ alert' = NoAlert
  /\ notification' = NoNotification
  /\ UNCHANGED <<user, devicesDep, devicesMounted, focused, doorOpen, isDoorFirstLoad, prevDoorOpen,
                 showAccessChoiceModal, showDoorPinModal, bioPending,
                 storeDoorVars, pinVars>>

\* ---------------------------------------------------------- PIN management
\* a screen renders its controls only for a signed-in user; the Devices
\* screen exists once its tab was opened
ScreenShown(v) ==
  /\ user[v[1]] # NoUser
  /\ v[2] = "home" => focused[v[1]]
  /\ v[2] = "devices" => devicesMounted[v[1]]

\* useFocusEffect of the Home screen: the screen comes (back) into focus and
\* reloads the PINs of the signed-in user
HomeFocus(s) ==
  /\ focused' = [focused EXCEPT ![s] = TRUE]
  /\ IF user[s] # NoUser
       THEN /\ Len(pinOps) < MaxPinOps
            /\ StartLoad(<<s, "home">>, user[s])
       ELSE UNCHANGED <<loadingPins, pinOps>>
  /\ alert' = NoAlert
  /\ notification' = NoNotification
  /\ UNCHANGED <<user, devicesDep, devicesMounted, doorVars, storeDoorVars, storePins, nextId, pins,
                 savingPin, showPinModal, deletePrompts>>

\* the Home screen loses focus (another tab or a pushed screen) and stays
\* mounted: no effect of it has focus among its dependencies but the loader
HomeBlur(s) ==
  /\ focused[s]
  /\ focused' = [focused EXCEPT ![s] = FALSE]
  /\ alert' = NoAlert
  /\ notification' = NoNotification
  /\ UNCHANGED <<user, devicesDep, devicesMounted, doorVars, storeDoorVars, pinVars>>

\* the Devices tab is opened for the first time: the screen mounts and its
\* useEffect (deps [user?.uid]) runs; it runs again in the commit of every
\* later change of the user (SignIn, SignOut)
DevicesEffect(s) ==
  /\ ~devicesMounted[s]
  /\ devicesMounted' = [devicesMounted EXCEPT ![s] = TRUE]
  /\ devicesDep' = [devicesDep EXCEPT ![s] = user[s]]
  /\ IF user[s] # NoUser
       THEN /\ Len(pinOps) < MaxPinOps
            /\ StartLoad(<<s, "devices">>, user[s])
       ELSE UNCHANGED <<loadingPins, pinOps>>
  /\ alert' = NoAlert
  /\ notification' = NoNotification
  /\ UNCHANGED <<user, focused, doorVars, storeDoorVars, storePins, nextId, pins,
                 savingPin, showPinModal, deletePrompts>>

\* the PIN list with its buttons; Devices replaces it by a spinner while
\* loading
ListShown(v) ==
  /\ ScreenShown(v)
  /\ v[2] = "devices" => ~loadingPins[v]

\* "Add PIN" button: disabled once the cached list holds 10 PINs
OpenPinModal(v) ==
  /\ ListShown(v)
  /\ ~showPinModal[v]
  /\ Len(pins[v]) < PIN_QUOTA
  /\ showPinModal' = [showPinModal EXCEPT ![v] = TRUE]
  /\ alert' = NoAlert
  /\ notification' = NoNotification
  /\ UNCHANGED <<user, devicesDep, devicesMounted, focused, doorVars, storeDoorVars, storePins, nextId, pins,
                 loadingPins, savingPin, pinOps, deletePrompts>>

\* closeModal: Cancel and the close icon (disabled while savingPin) or the
\* back request (onRequestClose, never disabled)
CloseModal(v) ==
  /\ ScreenShown(v)
  /\ showPinModal[v]
  /\ showPinModal' = [showPinModal EXCEPT ![v] = FALSE]
  /\ alert' = NoAlert
  /\ notification' = NoNotification
  /\ UNCHANGED <<user, devicesDep, devicesMounted, focused, doorVars, storeDoorVars, storePins, nextId, pins,
                 loadingPins, savingPin, pinOps, deletePrompts>>

\* variant: the quota rule compares with > instead of >=
AddPinErrorQuotaOffByOne(code, name, cache, uid) ==
  IF Trim(code) = <<>> THEN "Please enter a PIN code"
  ELSE IF Trim(name) = <<>> THEN "Please enter a PIN name"
  ELSE IF Len(code) < PIN_MIN_LEN \/ Len(code) > PIN_MAX_LEN
    THEN "PIN must be between 4-8 digits"
  ELSE IF ~AllDigits(code) THEN "PIN must contain only numbers"
  ELSE IF Len(cache) > PIN_QUOTA THEN "Maximum 10 PINs allowed"
  ELSE IF MatchesPin(cache, code) THEN "This PIN already exists"
  ELSE IF uid = NoUser THEN "User not authenticated"
  ELSE "ok"
\* variant: the digit rule is tested before the length rule
AddPinErrorDigitsFirst(code, name, cache, uid) ==
  IF Trim(code) = <<>> THEN "Please enter a PIN code"
  ELSE IF Trim(name) = <<>> THEN "Please enter a PIN name"
  ELSE IF ~AllDigits(code) THEN "PIN must contain only numbers"
  ELSE IF Len(code) < PIN_MIN_LEN \/ Len(code) > PIN_MAX_LEN
    THEN "PIN must be between 4-8 digits"
  ELSE IF Len(cache) >= PIN_QUOTA THEN "Maximum 10 PINs allowed"
  ELSE IF MatchesPin(cache, code) THEN "This PIN already exists"
  ELSE IF uid = NoUser THEN "User not authenticated"
  ELSE "ok"
\* variant: the digit rule is missing
AddPinErrorNoDigitRule(code, name, cache, uid) ==
  IF Trim(code) = <<>> THEN "Please enter a PIN code"
  ELSE IF Trim(name) = <<>> THEN "Please enter a PIN name"
  ELSE IF Len(code) < PIN_MIN_LEN \/ Len(code) > PIN_MAX_LEN
    THEN "PIN must be between 4-8 digits"
  ELSE IF Len(cache) >= PIN_QUOTA THEN "Maximum 10 PINs allowed"
  ELSE IF MatchesPin(cache, code) THEN "This PIN already exists"
  ELSE IF uid = NoUser THEN "User not authenticated"
  ELSE "ok"
\* the validation chain of handleAddPin; "ok" when every rule passes
AddPinError(code, name, cache, uid) ==
  IF Trim(code) = <<>> THEN "Please enter a PIN code"
  ELSE IF Trim(name) = <<>> THEN "Please enter a PIN name"
  ELSE IF Len(code) < PIN_MIN_LEN \/ Len(code) > PIN_MAX_LEN
    THEN "PIN must be between 4-8 digits"
  ELSE IF ~AllDigits(code) THEN "PIN must contain only numbers"
  ELSE IF Len(cache) >= PIN_QUOTA THEN "Maximum 10 PINs allowed"
  ELSE IF MatchesPin(cache, code) THEN "This PIN already exists"
  ELSE IF uid = NoUser THEN "User not authenticated"
  ELSE "ok"

\* "Create PIN" pressed with code and name in the form (pinCode, pinName)
HandleAddPin(v, code, name) ==
  /\ ScreenShown(v)
  /\ showPinModal[v]
  /\ ~savingPin[v]
  /\ LET err == AddPinError(code, name, pins[v], user[v[1]])
     IN  IF err # "ok"
           THEN /\ alert' = err
                /\ UNCHANGED <<savingPin, pinOps>>
           ELSE /\ Len(pinOps) < MaxPinOps
                /\ savingPin' = [savingPin EXCEPT ![v] = TRUE]
                /\ pinOps' = Append(pinOps,
                                    [kind |-> "add", view |-> v,
                                     uid |-> user[v[1]], pins |-> pins[v],
                                     code |-> code, name |-> name, id |-> 0])
                /\ alert' = NoAlert
  /\ notification' = NoNotification
  /\ UNCHANGED <<user, devicesDep, devicesMounted, focused, doorVars, storeDoorVars, storePins, nextId,
                 pins, loadingPins, showPinModal, deletePrompts>>

\* PIN operations started and confirmations open
PinsPending == Len(pinOps) + Len(deletePrompts)

\* trash icon of a listed PIN: handleDeletePin(id) opens the "Delete PIN"
\* confirmation, whose Delete button calls the deletePin of this render
HandleDeletePin(v, id) ==
  /\ ListShown(v)
  /\ \E i \in DOMAIN pins[v] : pins[v][i].id = id
  /\ PinsPending < MaxPinOps
  /\ deletePrompts' = Append(deletePrompts,
                             [view |-> v, uid |-> user[v[1]],
                              pins |-> pins[v], id |-> id])
  /\ alert' = NoAlert
  /\ notification' = NoNotification
  /\ UNCHANGED <<user, devicesDep, devicesMounted, focused, doorVars, storeDoorVars, storePins, nextId, pins,
                 loadingPins, savingPin, showPinModal, pinOps>>

\* "Cancel" in the confirmation
CancelDelete(i) ==
  /\ i \in DOMAIN deletePrompts
  /\ deletePrompts' = RemoveAt(deletePrompts, i)
  /\ alert' = NoAlert
  /\ notification' = NoNotification
  /\ UNCHANGED <<user, devicesDep, devicesMounted, focused, doorVars, storeDoorVars, storePins, nextId, pins,
                 loadingPins, savingPin, showPinModal, pinOps>>

\* "Delete" in the confirmation: deletePin(id) up to its await
ConfirmDelete(i) ==
  /\ i \in DOMAIN deletePrompts
  /\ deletePrompts' = RemoveAt(deletePrompts, i)
  /\ LET q == deletePrompts[i]
     IN  pinOps' = Append(pinOps,
                          [kind |-> "del", view |-> q.view, uid |-> q.uid,
                           pins |-> q.pins, code |-> <<>>, name |-> <<>>,
                           id |-> q.id])
  /\ alert' = NoAlert
  /\ notification' = NoNotification
  /\ UNCHANGED <<user, devicesDep, devicesMounted, focused, doorVars, storeDoorVars, storePins, nextId, pins,
                 loadingPins, savingPin, showPinModal>>

\* pins.filter(p => p.id !== id)
WithoutId(cache, id) == SelectSeq(cache, LAMBDA p : p.id # id)

\* variant: a failed read leaves the cached list as it was
LoadPinsDoneKeepsCacheOnFailure(i, ok) ==
  /\ i \in DOMAIN pinOps
  /\ pinOps[i].kind = "load"
  /\ LET op == pinOps[i]
     IN  /\ pins' = [pins EXCEPT ![op.view] =
                       IF ok THEN LoadedPins(storePins[op.uid]) ELSE @]
         /\ loadingPins' = [loadingPins EXCEPT ![op.view] = FALSE]
  /\ pinOps' = RemoveAt(pinOps, i)
  /\ alert' = NoAlert
  /\ notification' = NoNotification
  /\ UNCHANGED <<user, devicesDep, devicesMounted, focused, doorVars, storeDoorVars, storePins, nextId, savingPin, showPinModal, deletePrompts>>

\* variant: the loaded PINs are pushed onto the list already cached
LoadPinsDoneAppends(i, ok) ==
  /\ i \in DOMAIN pinOps
  /\ pinOps[i].kind = "load"
  /\ LET op == pinOps[i]
     IN  /\ pins' = [pins EXCEPT ![op.view] =
                       IF ok THEN @ \o LoadedPins(storePins[op.uid]) ELSE <<>>]
         /\ loadingPins' = [loadingPins EXCEPT ![op.view] = FALSE]
  /\ pinOps' = RemoveAt(pinOps, i)
  /\ alert' = NoAlert
  /\ notification' = NoNotification
  /\ UNCHANGED <<user, devicesDep, devicesMounted, focused, doorVars, storeDoorVars, storePins, nextId, savingPin, showPinModal, deletePrompts>>


\* getDocs settles: loadPinsFromFirestore after its await
LoadPinsDone(i, ok) ==
  /\ i \in DOMAIN pinOps
  /\ pinOps[i].kind = "load"
  /\ LET op == pinOps[i]
     IN  /\ pins' = [pins EXCEPT ![op.view] =
                       IF ok THEN LoadedPins(storePins[op.uid]) ELSE <<>>]
         /\ loadingPins' = [loadingPins EXCEPT ![op.view] = FALSE]
  /\ pinOps' = RemoveAt(pinOps, i)
  /\ alert' = NoAlert
  /\ notification' = NoNotification
  /\ UNCHANGED <<user, devicesDep, devicesMounted, focused, doorVars, storeDoorVars, storePins, nextId, savingPin, showPinModal, deletePrompts>>

\* variant: the new PIN is put into the cached list whatever addDoc answers
AddPinDoneCachesOnFailure(i, ok) ==
  /\ i \in DOMAIN pinOps
  /\ pinOps[i].kind = "add"
  /\ LET op == pinOps[i]
         newPin == PinRec(nextId, op.code, op.name)
     IN  /\ IF ok
              THEN /\ storePins' = [storePins EXCEPT
                                      ![op.uid] = @ \cup {newPin}]
                   /\ nextId' = nextId + 1
                   /\ pins' = [pins EXCEPT ![op.view] = Append(op.pins, newPin)]
                   /\ showPinModal' = [showPinModal EXCEPT ![op.view] = FALSE]
                   /\ alert' = AddedMessage(op.name)
              ELSE /\ alert' = "Failed to add PIN. Please try again."
                   /\ pins' = [pins EXCEPT ![op.view] = Append(op.pins, newPin)]
                   /\ UNCHANGED <<storePins, nextId, showPinModal>>
         /\ savingPin' = [savingPin EXCEPT ![op.view] = FALSE]
  /\ pinOps' = RemoveAt(pinOps, i)
  /\ notification' = NoNotification
  /\ UNCHANGED <<user, devicesDep, devicesMounted, focused, doorVars, storeDoorVars, loadingPins, deletePrompts>>

\* addDoc settles: handleAddPin after its await
AddPinDone(i, ok) ==
  /\ i \in DOMAIN pinOps
  /\ pinOps[i].kind = "add"
  /\ LET op == pinOps[i]
         newPin == PinRec(nextId, op.code, op.name)
     IN  /\ IF ok
              THEN /\ storePins' = [storePins EXCEPT
                                      ![op.uid] = @ \cup {newPin}]
                   /\ nextId' = nextId + 1
                   /\ pins' = [pins EXCEPT ![op.view] = Append(op.pins, newPin)]
                   /\ showPinModal' = [showPinModal EXCEPT ![op.view] = FALSE]
                   /\ alert' = AddedMessage(op.name)
              ELSE /\ alert' = "Failed to add PIN. Please try again."
                   /\ UNCHANGED <<storePins, nextId, pins, showPinModal>>
         /\ savingPin' = [savingPin EXCEPT ![op.view] = FALSE]
  /\ pinOps' = RemoveAt(pinOps, i)
  /\ notification' = NoNotification
  /\ UNCHANGED <<user, devicesDep, devicesMounted, focused, doorVars, storeDoorVars, loadingPins, deletePrompts>>

\* deleteDoc settles: deletePin after its await
DeletePinDone(i, ok) ==
  /\ i \in DOMAIN pinOps
  /\ pinOps[i].kind = "del"
  /\ LET op == pinOps[i]
     IN  IF ok
           THEN /\ storePins' = [storePins EXCEPT ![op.uid] =
                                   {p \in @ : p.id # op.id}]
                /\ pins' = [pins EXCEPT ![op.view] = WithoutId(op.pins, op.id)]
                /\ alert' = "PIN deleted successfully"
           ELSE /\ alert' = "Failed to delete PIN"
                /\ UNCHANGED <<storePins, pins>>
  /\ pinOps' = RemoveAt(pinOps, i)
  /\ notification' = NoNotification
  /\ UNCHANGED <<user, devicesDep, devicesMounted, focused, doorVars, storeDoorVars, nextId, loadingPins,
                 savingPin, showPinModal, deletePrompts>>

\* ----------------------------------------------------------- user inputs
\* what the user may type into the PIN code fields
CodeInputs ==
  { <<>>,                                   \* nothing
    <<" ", " ", " ", " ">>,                 \* blanks only
    <<"\t", "\t", "\t", "\t">>,             \* tabs only
    <<"1", "2">>,                           \* too short
    <<"1", "a">>,                           \* too short and not numeric
    <<"1", "2", "a", "4">>,                 \* not numeric
    <<"1", "0", "0", "1">>,                 \* the first seeded PIN
    <<"4", "3", "2", "1">>,                 \* new
    <<"9", "9", "9", "9", "9", "9", "9", "9">>,    \* new, longest
    <<"1", "2", "3", "4", "5", "6", "7", "8", "9">> }   \* one digit too long

DoorPinInputs ==
  { <<"1", "2">>, <<"1", "0", "0", "1">>, <<"9", "9", "9", "9">> }

\* ------------------------------------------------------- specifications
InitCommon ==
  /\ user = [s \in Sessions |-> NoUser]
  /\ devicesDep = [s \in Sessions |-> NoUser]
  /\ devicesMounted = [s \in Sessions |-> FALSE]
  /\ focused = [s \in Sessions |-> TRUE]
  /\ doorOpen = FALSE
  /\ doorLoading = FALSE
  /\ isDoorFirstLoad = TRUE
  /\ prevDoorOpen = FALSE
  /\ showAccessChoiceModal = FALSE
  /\ showDoorPinModal = FALSE
  /\ doorPinInput = <<>>
  /\ pinError = ""
  /\ bioPending = <<>>
  /\ doorWrites = <<>>
  /\ sub = 0
  /\ snapQ = <<>>
  /\ nextId = 1
  /\ pins = [v \in Views |-> <<>>]
  /\ loadingPins = [v \in Views |-> FALSE]
  /\ savingPin = [v \in Views |-> FALSE]
  /\ showPinModal = [v \in Views |-> FALSE]
  /\ pinOps = <<>>
  /\ deletePrompts = <<>>
  /\ alert = NoAlert
  /\ notification = NoNotification

\* sign-in and Home focus of session 1 in the door-controller runs
DoorSignIn == InFlight - Len(snapQ) + 2 <= MaxInFlight /\ SignIn(1, "u1")
DoorHomeFocus == InFlight < MaxInFlight /\ HomeFocus(1)

\* the door-controller runs follow one biometric attempt at a time
DoorBiometrics == bioPending = <<>> /\ HandleBiometricAuth

\* The door controller of session 1 with other writers of the door document.
\* The store holds one PIN of u1 and none of u2.
Init ==
  /\ InitCommon
  /\ storeDoor \in {NoDoorDoc, DeviceDoorDoc(FALSE)}
  /\ storePins = [u \in Users |-> IF u = "u1" THEN SeedPins(1) ELSE {}]

Next ==
  \/ DoorSignIn
  \/ SignOut(1)
  \/ DoorHomeFocus
  \/ \E i \in 1 .. MaxPinOps, ok \in BOOLEAN : LoadPinsDone(i, ok)
  \/ DoorSnapshot
  \/ DoorSnapshotError
  \/ \E open \in BOOLEAN : ForeignDoorWrite(open)
  \/ \E i \in 1 .. MaxInFlight : ToggleDoorStateAck(i)
  \/ \E i \in 1 .. MaxInFlight : ToggleDoorStateFail(i)
  \/ HandleDoorToggle
  \/ CancelAccessChoice
  \/ ChooseAccessCode
  \/ DoorBiometrics
  \/ \E i \in 1 .. MaxInFlight, answer \in BiometricAnswers :
       BiometricCheck(i, answer)
  \/ \E i \in 1 .. MaxInFlight, outcome \in BiometricOutcomes :
       BiometricResult(i, outcome)
  \/ DismissDoorPinModal
  \/ \E text \in DoorPinInputs : SetDoorPinInput(text)
  \/ \E src \in PinSubmitSources : HandlePinAuth(src)

Spec == Init /\ [][Next]_vars

\* settling of a door write, with the fairness the store's answer provides
DoorWriteSettles ==
  \E i \in 1 .. MaxInFlight : ToggleDoorStateAck(i) \/ ToggleDoorStateFail(i)

HomePins == pins[<<1, "home">>]

\* One signed-in period of the door controller: the PIN load succeeds and
\* the store settles every write it was sent.
BusyNext ==
  \/ DoorSignIn
  \/ \E i \in 1 .. MaxPinOps : LoadPinsDone(i, TRUE)
  \/ DoorSnapshot
  \/ \E open \in BOOLEAN : ForeignDoorWrite(open)
  \/ \E i \in 1 .. MaxInFlight : ToggleDoorStateAck(i)
  \/ \E i \in 1 .. MaxInFlight : ToggleDoorStateFail(i)
  \/ HandleDoorToggle
  \/ CancelAccessChoice
  \/ ChooseAccessCode
  \/ DoorBiometrics
  \/ \E i \in 1 .. MaxInFlight, answer \in BiometricAnswers :
       BiometricCheck(i, answer)
  \/ \E i \in 1 .. MaxInFlight, outcome \in BiometricOutcomes :
       BiometricResult(i, outcome)
  \/ DismissDoorPinModal
  \/ \E text \in DoorPinInputs : SetDoorPinInput(text)
  \/ \E src \in PinSubmitSources : HandlePinAuth(src)

FairSpec == Init /\ [][BusyNext]_vars /\ WF_vars(DoorWriteSettles)

\* The same period with a store that also delivers every snapshot it queued
\* for the listener.
LwwSpec ==
  Init /\ [][BusyNext]_vars /\ WF_vars(DoorWriteSettles) /\ WF_vars(DoorSnapshot)

\* PIN management of one signed-in client: the Home and the Devices screen of
\* session 1, each with its own cached list.  The store already holds
\* SeedCount PINs of u1.
\* The door mirror of session 1 while the session begins and ends and the
\* Home screen loses and regains focus, with other writers of the door
\* document.
MirrorNext ==
  \/ DoorSignIn
  \/ SignOut(1)
  \/ HomeBlur(1)
  \/ DoorHomeFocus
  \/ \E i \in 1 .. MaxPinOps, ok \in BOOLEAN : LoadPinsDone(i, ok)
  \/ DoorSnapshot
  \/ DoorSnapshotError
  \/ \E open \in BOOLEAN : ForeignDoorWrite(open)

FocusSpec == Init /\ [][MirrorNext]_vars

SeedCount == PIN_QUOTA - 1

InitSeeded(n) ==
  /\ InitCommon
  /\ storeDoor = DeviceDoorDoc(FALSE)
  /\ storePins = [u \in Users |-> IF u = "u1" THEN SeedPins(n) ELSE {}]

InitPins == InitSeeded(SeedCount)

\* the listed PINs whose trash icon the runs press
DeleteInputs == {0 - 1, 1}

\* what the runs type into the Add PIN form
FormInputs ==
  {<<c, <<"G">>>> : c \in CodeInputs}
    \cup {<< <<>>, <<>> >>, << <<"4", "3", "2", "1">>, <<>> >>,
          << <<"4", "3", "2", "1">>, <<" ">> >>,
          << <<"4", "3", "2", "1">>, <<"\n">> >>,
          << <<"4", "3", "2", "1">>, <<" ", "U+3000", "\t">> >>,
          << <<"4", "3", "2", "1">>, <<" ", "G", "\t">> >>}

\* PINs added or being added so far
IdsIssued ==
  nextId - 1 + Cardinality({i \in DOMAIN pinOps : pinOps[i].kind = "add"})

\* room for one more operation of the single client
ClientCanStart == PinsPending < MaxClientOps

PinScreenNext(v) ==
  \/ OpenPinModal(v)
  \/ CloseModal(v)
  \/ \E in \in FormInputs :
       /\ IdsIssued < MaxIds
       /\ ClientCanStart \/ AddPinError(in[1], in[2], pins[v], user[v[1]]) # "ok"
       /\ HandleAddPin(v, in[1], in[2])
  \/ \E id \in DeleteInputs : ClientCanStart /\ HandleDeletePin(v, id)

PinOpSettles ==
  \E i \in 1 .. MaxPinOps, ok \in BOOLEAN :
    LoadPinsDone(i, ok) \/ AddPinDone(i, ok) \/ DeletePinDone(i, ok)

\* the user answers a "Delete PIN" confirmation
DeleteAnswered ==
  \E i \in 1 .. MaxPinOps : ConfirmDelete(i) \/ CancelDelete(i)

NextPins ==
  \/ ClientCanStart /\ SignIn(1, "u1")
  \/ SignOut(1)
  \/ ClientCanStart /\ HomeFocus(1)
  \/ (ClientCanStart \/ user[1] = NoUser) /\ DevicesEffect(1)
  \/ \E scr \in Screens : PinScreenNext(<<1, scr>>)
  \/ DeleteAnswered
  \/ PinOpSettles

SpecPins == InitPins /\ [][NextPins]_vars

\* The Add PIN form of the two screens of one client, with the loads and
\* writes it causes; nothing is deleted and the user stays signed in.
FormNext(v) ==
  \/ OpenPinModal(v)
  \/ CloseModal(v)
  \/ \E in \in FormInputs :
       /\ IdsIssued < MaxIds
       /\ ClientCanStart \/ AddPinError(in[1], in[2], pins[v], user[v[1]]) # "ok"
       /\ HandleAddPin(v, in[1], in[2])

NextForm ==
  \/ ClientCanStart /\ SignIn(1, "u1")
  \/ ClientCanStart /\ HomeFocus(1)
  \/ ClientCanStart /\ DevicesEffect(1)
  \/ \E scr \in Screens : FormNext(<<1, scr>>)
  \/ \E i \in 1 .. MaxPinOps, ok \in BOOLEAN : LoadPinsDone(i, ok)
  \/ \E i \in 1 .. MaxPinOps, ok \in BOOLEAN : AddPinDone(i, ok)

SpecForm == InitPins /\ [][NextForm]_vars

\* Several sessions of the same account, each adding PINs from its Home
\* screen against its own cached list; every read and write succeeds.  The
\* store already holds SessionSeedCount PINs of u1.
\* The PIN list of the Home screen of one client with every mutation: PINs
\* are added and deleted, and each read or write may fail.
NextMutate ==
  \/ ClientCanStart /\ SignIn(1, "u1")
  \/ ClientCanStart /\ HomeFocus(1)
  \/ FormNext(<<1, "home">>)
  \/ \E id \in DeleteInputs :
       ClientCanStart /\ HandleDeletePin(<<1, "home">>, id)
  \/ \E i \in 1 .. MaxPinOps : ConfirmDelete(i)
  \/ \E i \in 1 .. MaxPinOps : CancelDelete(i)
  \/ \E i \in 1 .. MaxPinOps, ok \in BOOLEAN : LoadPinsDone(i, ok)
  \/ \E i \in 1 .. MaxPinOps, ok \in BOOLEAN : AddPinDone(i, ok)
  \/ \E i \in 1 .. MaxPinOps, ok \in BOOLEAN : DeletePinDone(i, ok)

SpecMutate == InitPins /\ [][NextMutate]_vars


\* the listed PINs whose trash icon is pressed while another write is pending
OverlapDeletes == {0 - 1, 0 - 2}

\* Overlapping mutations on the Home screen: once the list is loaded, PINs
\* are added and deleted without waiting for the write before to settle;
\* every read and write succeeds and nothing else reloads the list.
NextOverlap ==
  \/ SignIn(1, "u1")
  \/ \E i \in 1 .. MaxPinOps : LoadPinsDone(i, TRUE)
  \/ ~loadingPins[<<1, "home">>] /\ FormNext(<<1, "home">>)
  \/ \E id \in OverlapDeletes :
       ~loadingPins[<<1, "home">>] /\ HandleDeletePin(<<1, "home">>, id)
  \/ \E i \in 1 .. MaxPinOps : ConfirmDelete(i)
  \/ \E i \in 1 .. MaxPinOps : CancelDelete(i)
  \/ \E i \in 1 .. MaxPinOps : AddPinDone(i, TRUE)
  \/ \E i \in 1 .. MaxPinOps : DeletePinDone(i, TRUE)

SpecOverlap == InitPins /\ [][NextOverlap]_vars


\* One device used by two accounts in turn: a user signs in, the Home screen
\* loads the PINs and the door can be unlocked by PIN; the user signs out and
\* the other signs in.  Reads may still be pending when the user changes.
NextUsers ==
  \/ \E u \in Users : SignIn(1, u)
  \/ SignOut(1)
  \/ \E i \in 1 .. MaxPinOps, ok \in BOOLEAN : LoadPinsDone(i, ok)
  \/ DoorSnapshot
  \/ \E i \in 1 .. MaxInFlight : ToggleDoorStateAck(i)
  \/ HandleDoorToggle
  \/ ChooseAccessCode
  \/ \E text \in DoorPinInputs : SetDoorPinInput(text)
  \/ \E src \in PinSubmitSources : HandlePinAuth(src)

SpecUsers == Init /\ [][NextUsers]_vars


SessionSeedCount == PIN_QUOTA - 2

InitSessions == InitSeeded(SessionSeedCount)

SessionInputs ==
  { << <<"4", "3", "2", "1">>, <<"G">> >>,
    << <<"9", "9", "9", "9", "9", "9", "9", "9">>, <<"G">> >>,
    << <<"1", "2">>, <<"G">> >> }

NextSessions ==
  \/ \E s \in Sessions : SignIn(s, "u1")
  \/ \E s \in Sessions : HomeFocus(s)
  \/ \E s \in Sessions : OpenPinModal(<<s, "home">>)
  \/ \E s \in Sessions, in \in SessionInputs :
       IdsIssued < MaxSessionIds /\ HandleAddPin(<<s, "home">>, in[1], in[2])
  \/ \E i \in 1 .. MaxPinOps : LoadPinsDone(i, TRUE)
  \/ \E i \in 1 .. MaxPinOps : AddPinDone(i, TRUE)

SpecSessions == InitSessions /\ [][NextSessions]_vars

\* --------------------------------------------------------------- claims
PinSubmitted == \E src \in PinSubmitSources : HandlePinAuth(src)
IssuesOneWrite == Len(doorWrites') = Len(doorWrites) + 1
NewWrite == doorWrites'[Len(doorWrites')]

\* C1: a door write with isOpen = true is issued only by a step in which the
\* biometric capability reported success or the entered code equalled the
\* code of a cached PIN; a toggle request while the local door state is
\* closed issues no write and only opens the method-choice prompt.
OpeningIsGated ==
  /\ [][(Len(doorWrites') > Len(doorWrites) /\ NewWrite.payload.isOpen = TRUE)
          => \/ PinSubmitted /\ MatchesPin(HomePins, doorPinInput)
             \/ \E i \in DOMAIN bioPending : BiometricResult(i, "success")]_vars
  /\ [][(HandleDoorToggle /\ ~doorOpen)
          => /\ doorWrites' = doorWrites
             /\ storeDoor' = storeDoor
             /\ showAccessChoiceModal'
             /\ UNCHANGED <<showDoorPinModal, bioPending, doorLoading>>]_vars

OpeningIsGatedWitness ==
  \E i \in DOMAIN doorWrites :
    /\ doorWrites[i].payload.isOpen = TRUE
    /\ doorWrites[i].via = "pin"

\* C2 (as claimed): from the PIN prompt, submitting a code that equals a
\* cached PIN issues exactly one door write, carrying isOpen = true and
\* updatedBy = the current user, whatever snapshots were delivered meanwhile.
PinMatchWritesOpen ==
  [][(PinSubmitted /\ Len(doorPinInput) >= PIN_MIN_LEN
        /\ MatchesPin(HomePins, doorPinInput))
       => /\ IssuesOneWrite
          /\ NewWrite.payload.isOpen = TRUE
          /\ NewWrite.payload.updatedBy = user[1]]_vars

\* C3: from the PIN prompt, submitting a code of length >= 4 that equals no
\* cached PIN keeps the prompt shown, sets a non-empty error, empties the
\* input buffer and issues no door write.
PinMismatchClearsBuffer ==
  [][(PinSubmitted /\ Len(doorPinInput) >= PIN_MIN_LEN
        /\ ~MatchesPin(HomePins, doorPinInput))
       => /\ showDoorPinModal'
          /\ pinError' # ""
          /\ doorPinInput' = <<>>
          /\ doorWrites' = doorWrites
          /\ storeDoor' = storeDoor]_vars

PinMismatchWitness ==
  /\ showDoorPinModal
  /\ pinError = "Invalid PIN code. Please try again."
  /\ doorPinInput = <<>>
  /\ doorWrites = <<>>

\* C4: when the local door state is open, a toggle request issues the door
\* write with isOpen = false at once: no method-choice prompt, no PIN prompt,
\* no biometric call.
ClosingIsNeverGated ==
  [][(HandleDoorToggle /\ doorOpen)
       => /\ IssuesOneWrite
          /\ NewWrite.payload.isOpen = FALSE
          /\ doorLoading'
          /\ UNCHANGED <<showAccessChoiceModal, showDoorPinModal,
                         bioPending>>]_vars

ClosingWitness ==
  \E i \in DOMAIN doorWrites :
    /\ doorWrites[i].via = "toggle"
    /\ doorWrites[i].payload.isOpen = FALSE
    /\ ~showAccessChoiceModal /\ ~showDoorPinModal /\ bioPending = <<>>

\* C5 (as claimed): a client has at most one door write in flight.
AtMostOneDoorWrite == Len(doorWrites) <= 1

\* C6 (as claimed): when the door write fails, the controller is back where
\* it was before Busy (the PIN prompt shown on the PIN path, the method-choice
\* prompt on the biometric path, no prompt on the close path) and an error is
\* shown.
FailureRestoresPriorState ==
  [][\A i \in DOMAIN doorWrites :
       ToggleDoorStateFail(i)
         => /\ showDoorPinModal' = (doorWrites[i].via = "pin")
            /\ showAccessChoiceModal' = (doorWrites[i].via = "biometric")
            /\ alert' # NoAlert]_vars

\* C7: whenever doorLoading is true it eventually becomes false again,
\* provided the store settles every write.
NeverStuckInBusy == doorLoading ~> ~doorLoading

NeverStuckWitness ==
  /\ ~doorLoading
  /\ doorWrites = <<>>
  /\ alert = "Failed to control door. Please try again."

StoredPins == storePins["u1"]

\* C8 (as claimed): no two PINs stored for the user have the same code.
StoredCodesUnique ==
  \A p1, p2 \in StoredPins : p1 # p2 => p1.code # p2.code

\* C9 (as claimed): with a single signed-in client the number of PINs stored
\* for the user never exceeds 10.
StoredWithinQuota == Cardinality(StoredPins) <= PIN_QUOTA

\* C10 (as claimed): with k sessions of the account adding PINs, the number
\* of PINs stored for the user never exceeds 10 + (k - 1).
StoredWithinRaceBound ==
  Cardinality(StoredPins) <= PIN_QUOTA + (NumSessions - 1)

\* what "Create PIN" was pressed with, on some screen of session 1
AddPinPressed(v, in) == HandleAddPin(v, in[1], in[2])
PinViews == {<<1, scr>> : scr \in Screens}
NoPinStoreWrite == pinOps' = pinOps /\ storePins' = storePins
WellFormedCode(code) ==
  /\ Len(code) >= PIN_MIN_LEN
  /\ Len(code) <= PIN_MAX_LEN
  /\ \A i \in DOMAIN code : code[i] \in Digits
NonBlank(text) == \E i \in DOMAIN text : text[i] \notin WhiteSpace

\* C11 (as claimed): with exactly 10 PINs in the cached list, addPin rejects
\* with 'Maximum 10 PINs allowed' for every code and name, and issues no
\* store write.
AlwaysQuotaExceeded ==
  [][\A v \in PinViews, in \in FormInputs :
       (AddPinPressed(v, in) /\ Len(pins[v]) = PIN_QUOTA)
         => /\ alert' = "Maximum 10 PINs allowed"
            /\ NoPinStoreWrite]_vars

\* C11 (amended): with exactly 10 PINs in the cached list, addPin rejects
\* every code and name with an error and issues no store write; the error is
\* 'Maximum 10 PINs allowed' whenever the code is 4 to 8 digits and the name
\* is not blank.
QuotaExceededWhenWellFormed ==
  [][\A v \in PinViews, in \in FormInputs :
       (AddPinPressed(v, in) /\ Len(pins[v]) = PIN_QUOTA)
         => /\ alert' \notin {NoAlert, "ok"}
            /\ NoPinStoreWrite
            /\ UNCHANGED <<pins, savingPin, showPinModal, nextId>>
            /\ (WellFormedCode(in[1]) /\ NonBlank(in[2]))
                 => alert' = "Maximum 10 PINs allowed"]_vars

QuotaExceededWitness ==
  \E v \in PinViews :
    /\ Len(pins[v]) = PIN_QUOTA
    /\ showPinModal[v]
    /\ alert = "Maximum 10 PINs allowed"

PinFormatErrors ==
  {"PIN must be between 4-8 digits", "PIN must contain only numbers"}

\* C12: addPin reports the error of the first rule that fails, in the order
\* code not blank, name not blank, code length in [4,8], code all digits,
\* cached PIN count < 10, code not in the cached list; a rejected call issues
\* no store write; the Home and the Devices screen do the same.
ValidationOrder ==
  [][\A v \in PinViews, in \in FormInputs :
       AddPinPressed(v, in)
         => LET code == in[1]
                name == in[2]
                lengthOk == Len(code) >= PIN_MIN_LEN /\ Len(code) <= PIN_MAX_LEN
                digitsOk == \A i \in DOMAIN code : code[i] \in Digits
                filled == NonBlank(code) /\ NonBlank(name)
                dup == \E i \in DOMAIN pins[v] : pins[v][i].code = code
            IN  /\ ~NonBlank(code) => alert' = "Please enter a PIN code"
                /\ (NonBlank(code) /\ ~NonBlank(name))
                     => alert' = "Please enter a PIN name"
                /\ (filled /\ ~lengthOk)
                     => alert' = "PIN must be between 4-8 digits"
                /\ (filled /\ lengthOk /\ ~digitsOk)
                     => alert' = "PIN must contain only numbers"
                /\ (filled /\ lengthOk /\ digitsOk /\ Len(pins[v]) >= PIN_QUOTA)
                     => alert' = "Maximum 10 PINs allowed"
                /\ (filled /\ lengthOk /\ digitsOk /\ Len(pins[v]) < PIN_QUOTA
                       /\ dup)
                     => alert' = "This PIN already exists"
                /\ alert' # NoAlert => NoPinStoreWrite]_vars

ValidationOrderWitness ==
  /\ showPinModal[<<1, "devices">>]
  /\ ~showPinModal[<<1, "home">>]
  /\ alert = "PIN must be between 4-8 digits"

IllFormedCode(code) == ~WellFormedCode(code)

\* C13 (as claimed): for every code of length < 4 or > 8 or with a non-digit
\* character, addPin rejects with 'PIN must be between 4-8 digits' or 'PIN
\* must contain only numbers', performs no store write and leaves the cached
\* list unchanged.
IllFormedGetsFormatError ==
  [][\A v \in PinViews, in \in FormInputs :
       (AddPinPressed(v, in) /\ IllFormedCode(in[1]))
         => /\ alert' \in PinFormatErrors
            /\ NoPinStoreWrite
            /\ pins' = pins]_vars

\* PINs written or being written by addPin
AddedCodes ==
  {p.code : p \in {q \in UNION {storePins[u] : u \in Users} : q.id > 0}}
    \cup {pinOps[i].code : i \in {j \in DOMAIN pinOps : pinOps[j].kind = "add"}}

\* C13 (amended): for every code of length < 4 or > 8 or with a non-digit
\* character, addPin rejects with an error, performs no store write and
\* leaves the cached list unchanged; the error is the length error or the
\* digit error when neither the code nor the name is blank, and the
\* empty-code or empty-name error otherwise; every PIN that addPin writes
\* has a code of 4 to 8 ASCII digits.
IllFormedIsRejected ==
  /\ [][\A v \in PinViews, in \in FormInputs :
          (AddPinPressed(v, in) /\ IllFormedCode(in[1]))
            => /\ alert' \in PinFormatErrors
                             \cup {"Please enter a PIN code",
                                   "Please enter a PIN name"}
               /\ (NonBlank(in[1]) /\ NonBlank(in[2]))
                    => alert' \in PinFormatErrors
               /\ NoPinStoreWrite
               /\ pins' = pins]_vars
  /\ [](\A code \in AddedCodes : WellFormedCode(code))

IllFormedIsRejectedWitness ==
  /\ \E v \in PinViews : showPinModal[v]
  /\ alert = "PIN must contain only numbers"
  /\ pinOps = <<>>
  /\ \E p \in storePins["u1"] : p.id > 0

\* C14 (as claimed): the first snapshot delivered on a door subscription
\* triggers no notification, whatever its isOpen value, for the subscription
\* opened first and for every subscription opened later.
FirstSnapshotIsSilent ==
  [][(DoorSnapshot /\ Head(snapQ).initial)
       => notification' = NoNotification]_vars

\* C15: a snapshot of the existing document that is not the first
\* observation emits exactly the notification 'Front Door is now OPEN' when
\* its isOpen is true and differs from the value observed before, 'Front
\* Door is now CLOSED' when it is false and differs, and none when it equals
\* the value observed before.
NotifiesOnChange ==
  [][(DoorSnapshot /\ Head(snapQ).exists /\ ~Head(snapQ).initial
        /\ ~isDoorFirstLoad)
       => LET new == (Head(snapQ).isOpen = TRUE)
          IN  notification' =
                IF new = doorOpen THEN NoNotification
                ELSE IF new THEN "Front Door is now OPEN"
                ELSE "Front Door is now CLOSED"]_vars

NotifiesOnChangeWitness ==
  /\ notification = "Front Door is now CLOSED"
  /\ ~doorOpen
  /\ storeDoor.data["updatedBy"] = "u1"
  /\ Listening

NarrowFields == {"isOpen", "lastUpdated", "updatedBy"}

\* C16 (as claimed): the payload of every door write names only isOpen,
\* lastUpdated and updatedBy, and applying it leaves every other field of
\* the door document as it was in the store.
NarrowMergeWrite ==
  /\ [][Len(doorWrites') > Len(doorWrites)
         => DOMAIN NewWrite.payload \subseteq NarrowFields]_vars
  /\ [][\A i \in DOMAIN doorWrites :
          ToggleDoorStateAck(i)
            => \A f \in DoorFields \ NarrowFields :
                 storeDoor'.data[f] = storeDoor.data[f]]_vars

\* C17: doorOpen changes only when a snapshot of the existing door document
\* is delivered; issuing a door write, its acknowledgement, its failure and
\* a subscription error leave it unchanged.
MirrorFollowsSnapshotsOnly ==
  /\ [][doorOpen' # doorOpen => (DoorSnapshot /\ Head(snapQ).exists)]_vars
  /\ [][(doorWrites' # doorWrites \/ DoorSnapshotError)
         => doorOpen' = doorOpen]_vars

MirrorFollowsWitness ==
  /\ storeDoor.exists
  /\ storeDoor.data["isOpen"] = TRUE
  /\ storeDoor.data["updatedBy"] = "u1"
  /\ ~doorOpen
  /\ doorWrites = <<>>
  /\ ~doorLoading
  /\ Listening /\ snapQ # <<>>

StoreIsOpen == storeDoor.data["isOpen"] = TRUE
Converged == (Listening /\ storeDoor.exists) => doorOpen = StoreIsOpen

\* C18: the store's isOpen is the value of the write applied last; a
\* subscribed client that has been delivered every queued snapshot shows the
\* store's isOpen; and once the store stops changing, the subscribed client
\* shows the store's isOpen from some point on.
LastWriteWins ==
  /\ [][\A i \in DOMAIN doorWrites :
          ToggleDoorStateAck(i)
            => storeDoor'.data["isOpen"] = doorWrites[i].payload.isOpen]_vars
  /\ [][\A open \in BOOLEAN :
          ForeignDoorWrite(open) => storeDoor'.data["isOpen"] = open]_vars
  /\ [](snapQ = <<>> => Converged)
  /\ (<>[][storeDoor' = storeDoor]_vars => <>[]Converged)

LastWriteWinsWitness ==
  /\ Listening /\ snapQ = <<>> /\ doorWrites = <<>>
  /\ doorOpen
  /\ storeDoor.data["updatedBy"] = "device"
  /\ notification = "Front Door is now OPEN"

Closed == ~doorOpen /\ NoModal /\ ~doorLoading

\* C19: cancelling the method-choice prompt (Cancel, overlay, back request)
\* closes it, shows no other prompt, issues no door write and leaves the
\* local door state unchanged; when the prompt was opened from Closed and
\* nothing is pending, the controller is in Closed again.
CancelReturnsToClosed ==
  [][CancelAccessChoice
       => /\ ~showAccessChoiceModal' /\ ~showDoorPinModal'
          /\ UNCHANGED <<doorOpen, doorLoading, doorWrites, bioPending,
                         storeDoor>>
          /\ (~doorOpen /\ ~doorLoading) => Closed']_vars

CancelWitness ==
  /\ HomeShown /\ Closed
  /\ bioPending # <<>>
  /\ doorWrites = <<>>
  /\ doorPinInput = <<>> /\ pinError = ""
  /\ storeDoor.data["updatedBy"] # "u1"

\* C20 (as claimed): dismissing the PIN prompt issues no door write and
\* leaves the input buffer and the error message empty.
DismissalClearsSession ==
  [][DismissDoorPinModal
       => /\ doorWrites' = doorWrites
          /\ storeDoor' = storeDoor
          /\ doorPinInput' = <<>>
          /\ pinError' = ""]_vars

\* attempts for which authenticateAsync was called
Authenticating(q) == {k \in DOMAIN q : q[k].stage = "authenticate"}

\* the second check of attempt i answers, and hardware or enrolment is missing
ReportsUnavailable(i, answer) ==
  /\ BiometricCheck(i, answer)
  /\ bioPending[i].stage = "isEnrolled"
  /\ ~(bioPending[i].hasHardware /\ answer = "yes")

\* C21: when the biometric capability reports no hardware or nothing
\* enrolled, the attempt ends without authenticate being called, no door
\* write is issued, the "Biometrics Unavailable ... Please use PIN." message
\* is shown, and the prompts are left as they are, so that a method-choice
\* prompt that is still up offers the PIN path; authenticate is called only
\* when both checks answered yes.
UnavailableBiometricsFallBack ==
  /\ [][\A i \in 1 .. MaxInFlight, answer \in {"yes", "no"} :
          ReportsUnavailable(i, answer)
            => /\ Len(bioPending') = Len(bioPending) - 1
               /\ Cardinality(Authenticating(bioPending'))
                    = Cardinality(Authenticating(bioPending))
               /\ doorWrites' = doorWrites
               /\ storeDoor' = storeDoor
               /\ doorLoading' = doorLoading
               /\ alert' = "Biometrics Unavailable"
               /\ showAccessChoiceModal' = showAccessChoiceModal
               /\ showDoorPinModal' = showDoorPinModal]_vars
  /\ [][Cardinality(Authenticating(bioPending'))
          > Cardinality(Authenticating(bioPending))
          => \E i \in 1 .. MaxInFlight :
               /\ BiometricCheck(i, "yes")
               /\ bioPending[i].stage = "isEnrolled"
               /\ bioPending[i].hasHardware]_vars

UnavailableBiometricsWitness ==
  /\ alert = "Biometrics Unavailable"
  /\ showAccessChoiceModal
  /\ bioPending = <<>>
  /\ doorWrites = <<>>
  /\ ~doorOpen

BiometricWrite(q) == q # <<>> /\ q[Len(q)].via = "biometric"

\* C22: when authenticate reports failure or cancellation, or throws, the
\* prompts are left as they were (a method-choice prompt that is shown stays
\* shown) and no door write is issued; a door write made through the
\* biometric path is issued only by a step in which authenticate reported
\* success.
BiometricFailureFallsBack ==
  /\ [][\A i \in 1 .. MaxInFlight, outcome \in BiometricOutcomes \ {"success"} :
          BiometricResult(i, outcome)
            => /\ showAccessChoiceModal' = showAccessChoiceModal
               /\ showDoorPinModal' = showDoorPinModal
               /\ doorWrites' = doorWrites
               /\ doorLoading' = doorLoading
               /\ storeDoor' = storeDoor
               /\ doorOpen' = doorOpen]_vars
  /\ [][(Len(doorWrites') > Len(doorWrites) /\ BiometricWrite(doorWrites'))
          => \E i \in 1 .. MaxInFlight : BiometricResult(i, "success")]_vars

\* AwaitingBiometric: an attempt is pending under the method-choice prompt
AwaitingBiometricWitness ==
  /\ HomeShown
  /\ showAccessChoiceModal
  /\ Authenticating(bioPending) # {}
  /\ doorWrites = <<>>
  /\ ~doorLoading

\* C23: submitting a PIN buffer shorter than 4 characters keeps the PIN
\* prompt up with the format error set, leaves the buffer as entered, and
\* issues no door write.
ShortPinIsFormatError ==
  [][(PinSubmitted /\ Len(doorPinInput) < PIN_MIN_LEN)
       => /\ showDoorPinModal'
          /\ pinError' = "PIN must be 4-8 digits."
          /\ doorPinInput' = doorPinInput
          /\ doorWrites' = doorWrites
          /\ doorLoading' = doorLoading
          /\ storeDoor' = storeDoor]_vars

ShortPinWitness ==
  /\ showDoorPinModal
  /\ pinError = "PIN must be 4-8 digits."
  /\ doorPinInput = <<"1", "2">>
  /\ doorWrites = <<>>
  /\ HomePins # <<>>

\* C24 (as claimed): while the current user is null no door subscription is
\* open and no handler issues a PIN read, a door write or a PIN add/delete
\* write.
NoUserIsTerminalGate ==
  /\ [](user[1] = NoUser => ~Listening)
  /\ [][(user[1] = NoUser /\ user'[1] = NoUser)
          => /\ Len(doorWrites') <= Len(doorWrites)
             /\ Len(pinOps') <= Len(pinOps)]_vars

\* C25 (as claimed): the door listener is detached whenever the Home screen
\* is out of focus or no user is signed in; at most one door listener is
\* attached at any time; and without a listener no step changes the local
\* door state or notifies.
UnsubscribedOnBlurOrSignOut ==
  /\ []((user[1] = NoUser \/ ~focused[1]) => sub = 0)
  /\ [](sub <= 1)
  /\ [][~Listening => /\ doorOpen' = doorOpen
                /\ prevDoorOpen' = prevDoorOpen
                /\ notification' = NoNotification]_vars

\* C25 (amended): the door listener is detached when the user session ends,
\* with its undelivered snapshots dropped; at most one door listener is
\* attached at any time; and without a listener no step changes the local
\* door state or notifies.
UnsubscribedOnSignOut ==
  /\ [](user[1] = NoUser => (sub = 0 /\ snapQ = <<>>))
  /\ [](sub <= 1)
  /\ [][~Listening => /\ doorOpen' = doorOpen
                /\ prevDoorOpen' = prevDoorOpen
                /\ notification' = NoNotification]_vars

\* the session has ended and another writer has since moved the door
UnsubscribedWitness ==
  /\ user[1] = NoUser
  /\ ~Listening
  /\ ~isDoorFirstLoad
  /\ storeDoor.exists
  /\ storeDoor.data["isOpen"] # doorOpen

\* the PINs of a cached list
PinSet(cache) == {cache[k] : k \in DOMAIN cache}

\* C26: a failed read of the PIN collection leaves the screen with an empty
\* cached list and the loading flag cleared; no alert is raised, no error
\* message is set and the store is untouched.
LoadFailureGivesEmptyList ==
  [][\A i \in 1 .. MaxPinOps :
       LoadPinsDone(i, FALSE)
         => /\ pins'[pinOps[i].view] = <<>>
            /\ ~loadingPins'[pinOps[i].view]
            /\ alert' = NoAlert
            /\ pinError' = pinError
            /\ storePins' = storePins
            /\ Len(pinOps') = Len(pinOps) - 1]_vars

LoadFailureWitness ==
  /\ user[1] = "u1"
  /\ pinOps = <<>>
  /\ HomePins = <<>>
  /\ ~loadingPins[<<1, "home">>]
  /\ pins[<<1, "devices">>] # <<>>
  /\ storePins["u1"] # {}

\* C27: a successful load leaves in the cache exactly the PINs stored for
\* the user, each once, whatever the cache held before; a load that finds
\* the cache already holding the stored PINs (as the load before it left it)
\* leaves the same set of PINs.
LoadPinsIsIdempotent ==
  [][\A i \in 1 .. MaxPinOps :
       LoadPinsDone(i, TRUE)
         => LET v == pinOps[i].view
                stored == storePins[pinOps[i].uid]
            IN  /\ PinSet(pins'[v]) = stored
                /\ Len(pins'[v]) = Cardinality(stored)
                /\ PinSet(pins[v]) = stored
                     => PinSet(pins'[v]) = PinSet(pins[v])
                /\ storePins' = storePins]_vars

\* a load is about to complete on a list that a load already filled
SecondLoadWitness ==
  /\ user[1] = "u1"
  /\ Len(pinOps) = 1
  /\ pinOps[1].kind = "load"
  /\ pinOps[1].view = <<1, "home">>
  /\ HomePins # <<>>
  /\ PinSet(HomePins) = storePins["u1"]
  /\ nextId = 1

AddFailed(i)    == AddPinDone(i, FALSE)
AddStored(i)    == AddPinDone(i, TRUE)
DeleteFailed(i) == DeletePinDone(i, FALSE)
DeleteStored(i) == DeletePinDone(i, TRUE)

\* C28: a failed addDoc or deleteDoc leaves every cached list and the store
\* as they were and raises the failure alert, and a failed addDoc clears the
\* saving flag with the form still open; a successful addDoc turns the list
\* the call saw into that list followed by the one new PIN, whose id the
\* store assigned, and a successful deleteDoc turns the list the call saw
\* into that list without the PIN of the given id, the store changing by
\* exactly that PIN.
FailedMutationChangesNothing ==
  [][\A i \in 1 .. MaxPinOps :
       LET op == pinOps[i]
           v  == pinOps[i].view
       IN  /\ AddFailed(i)
                => /\ pins' = pins
                   /\ storePins' = storePins
                   /\ alert' = "Failed to add PIN. Please try again."
                   /\ ~savingPin'[v]
                   /\ showPinModal' = showPinModal
           /\ DeleteFailed(i)
                => /\ pins' = pins
                   /\ storePins' = storePins
                   /\ alert' = "Failed to delete PIN"
                   /\ savingPin' = savingPin
           /\ AddStored(i)
                => /\ Len(pins'[v]) = Len(op.pins) + 1
                   /\ SubSeq(pins'[v], 1, Len(op.pins)) = op.pins
                   /\ pins'[v][Len(pins'[v])].code = op.code
                   /\ pins'[v][Len(pins'[v])].id \notin
                        {p.id : p \in storePins[op.uid]}
                   /\ storePins'[op.uid] =
                        storePins[op.uid] \cup {pins'[v][Len(pins'[v])]}
                   /\ pins[v] = op.pins
                        => pins'[v] = Append(pins[v], pins'[v][Len(pins'[v])])
                   /\ ~savingPin'[v]
           /\ DeleteStored(i)
                => /\ PinSet(pins'[v]) = {p \in PinSet(op.pins) : p.id # op.id}
                   /\ Len(pins'[v]) = Len(op.pins) - 1
                   /\ storePins'[op.uid] =
                        {p \in storePins[op.uid] : p.id # op.id}
                   /\ pins[v] = op.pins
                        => PinSet(pins[v]) \ PinSet(pins'[v])
                             = {p \in PinSet(pins[v]) : p.id = op.id}]_vars

\* addDoc has just failed under the open form
FailedAddWitness ==
  /\ alert = "Failed to add PIN. Please try again."
  /\ ~savingPin[<<1, "home">>]
  /\ showPinModal[<<1, "home">>]
  /\ Len(HomePins) = SeedCount
  /\ PinSet(HomePins) = storePins["u1"]
  /\ pinOps = <<>>

\* C29 (as claimed): on the Home screen, once the list has been loaded and
\* every add and delete that was started has been acknowledged, the cached
\* list holds exactly the PINs stored for the user.
CacheCoherentAfterOverlap ==
  (user[1] = "u1" /\ pinOps = <<>>) => PinSet(HomePins) = storePins["u1"]

\* C30 (as claimed): whenever handlePinAuth compares the entered code, every
\* PIN of the cached list is a PIN stored for the signed-in user, and a door
\* write made through the PIN path was unlocked by a PIN of that user.
PinsBelongToSignedInUser ==
  /\ [][(PinSubmitted /\ Len(doorPinInput) >= PIN_MIN_LEN)
          => PinSet(HomePins) \subseteq storePins[user[1]]]_vars
  /\ [][(PinSubmitted /\ IssuesOneWrite /\ NewWrite.via = "pin")
          => \E p \in storePins[user[1]] : p.code = doorPinInput]_vars
====
